---- MODULE Spec2Model ----
(***************************************************************************)
(* Model of fixed_income/data.py: the cashflow / maturity matrix builder   *)
(* (cashflows_matrix) and the price tick parser (to_decimal_price).        *)
(*                                                                         *)
(* Units.  Times are exact multiples of a quarter of a year, so a value of *)
(* 3 stands for 0.75 years and the semiannual step 0.5 is 2.  Dollar       *)
(* amounts are integers; coupon rates are even so that COUPON / 2 is       *)
(* exact.  Prices are counted in 128ths of a point (a quarter of a 32nd),  *)
(* which is the finest fraction the parser can produce.  All the floating  *)
(* point operations of the code on such values are exact (division by 0.5, *)
(* subtraction of multiples of 0.5, sums of multiples of 1/128).           *)
(***************************************************************************)
EXTENDS Integers, Sequences, FiniteSets

VARIABLES treasury_direct_df, quote_date, cf_status, cashflows, maturities,
          price_in_32s, dp_status, price

vars == <<treasury_direct_df, quote_date, cf_status, cashflows, maturities,
          price_in_32s, dp_status, price>>

builder_vars == <<treasury_direct_df, quote_date, cf_status, cashflows, maturities>>

parser_vars == <<price_in_32s, dp_status, price>>

\* ---------------------------------------------------------------- bounds
MaxRows == 2

MaxT == 7

MaxNeg == 2

MaxTail == 4

\* ------------------------------------------------------- program constants
\* 0.5 years, in quarters of a year
HalfYear == 2

\* np.timedelta64(6, "M"), in quarters of a year
SixMonths == 2

Par == 100

Coupons == {0, 4}

QuoteDates == {0, 1}

\* The index labels a frame carries: RangeIndex 0..n-1 or labels 1..n
LabelBases == {0, 1}

\* ------------------------------------------------------------- arithmetic
\* np.ceil(a / b) followed by int(), b > 0 (ceil(-0.5) is -0.0, int gives 0)
Ceil(a, b) == -((-a) \div b)

Max(S) == CHOOSE x \in S : \A y \in S : y <= x

\* numpy index normalisation on an axis of length size
InBounds(k, size) == -size <= k /\ k < size

Norm(k, size) == IF k < 0 THEN k + size ELSE k

\* np.zeros((rows, cols)), 0-based
Zeros(rows, cols) == [r \in 0..(rows - 1) |-> [k \in 0..(cols - 1) |-> 0]]

\* ----------------------------------------------------- cashflows_matrix
\* lines 136-143; the frame is not empty
MaxSemiPeriods(df, qd) ==
    Ceil(Max({df[j].MATURITY_DATE - qd : j \in 1..Len(df)}), SixMonths)

\* line 148
SemiPeriods(row) == Ceil(row.MATURITY, HalfYear)

\* line 157
SemiCouponWhole(row) == row.COUPON

SemiCoupon(row) == row.COUPON \div 2

\* lines 153-156: the maturity row after the two assignments of the else branch
MaturityFillForward(old, row, p) ==
    [k \in DOMAIN old |->
        IF k < p - 1 THEN row.MATURITY - HalfYear * (k + 1)
        ELSE IF k = p - 1 THEN row.MATURITY
        ELSE old[k]]

MaturityFill(old, row, p) ==
    [k \in DOMAIN old |->
        IF k < p - 1 THEN row.MATURITY - HalfYear * (p - 1 - k)
        ELSE IF k = p - 1 THEN row.MATURITY
        ELSE old[k]]

\* lines 158-159: the cashflow row after the slice assignment and the += 100
CashflowFillAll(old, row, p) ==
    [k \in DOMAIN old |->
        IF k = p - 1 THEN SemiCoupon(row) + Par ELSE SemiCoupon(row)]

CashflowFill(old, row, p) ==
    [k \in DOMAIN old |->
        IF k < p - 1 THEN SemiCoupon(row)
        ELSE IF k = p - 1 THEN SemiCoupon(row) + Par
        ELSE old[k]]

\* lines 148-159: one iteration of the loop on the state
\* st = [status, cashflows, maturities]; n rows, N columns
LoopBody(st, row, n, N) ==
    LET i == row.label
        p == SemiPeriods(row)
    IN  IF st.status # "running" THEN st
        ELSE IF p = 0 THEN
            IF ~(InBounds(i - 1, n) /\ InBounds(0, N))
            THEN [st EXCEPT !.status = "IndexError"]
            ELSE LET r == Norm(i - 1, n)
                 IN  [st EXCEPT !.maturities[r][0] = row.MATURITY,
                                !.cashflows[r][0] = Par]
        ELSE
            IF ~(InBounds(i - 1, n) /\ InBounds(p - 1, N))
            THEN [st EXCEPT !.status = "IndexError"]
            ELSE IF p - 1 < 0
            THEN [st EXCEPT !.status = "ValueError"]
            ELSE LET r == Norm(i - 1, n)
                 IN  [st EXCEPT
                        !.maturities[r] = MaturityFill(st.maturities[r], row, p),
                        !.cashflows[r] = CashflowFill(st.cashflows[r], row, p)]

\* line 147: for i, row in treasury_direct_df.iterrows()
RECURSIVE Loop(_, _, _, _, _)
Loop(st, df, j, n, N) ==
    IF j > Len(df) THEN st
    ELSE Loop(LoopBody(st, df[j], n, N), df, j + 1, n, N)

\* lines 135-161: the outcome of a call
CashflowsMatrixResult(df, qd) ==
    IF Len(df) = 0
    THEN [status |-> "ValueError", cashflows |-> <<>>, maturities |-> <<>>]
    ELSE LET N == MaxSemiPeriods(df, qd)
         IN  IF N < 0
             THEN [status |-> "ValueError", cashflows |-> <<>>, maturities |-> <<>>]
             ELSE LET z == Zeros(Len(df), N)
                      st == Loop([status |-> "running", cashflows |-> z,
                                  maturities |-> z], df, 1, Len(df), N)
                  IN  IF st.status = "running"
                      THEN [st EXCEPT !.status = "returned"]
                      ELSE [status |-> st.status, cashflows |-> <<>>,
                            maturities |-> <<>>]

\* ------------------------------------------------------------ the inputs
\* A security t quarters from the quote date: MATURITY is the year fraction
\* of MATURITY_DATE - quote_date, as treasury_direct_prices derives it
Security(lbl, qd, t, c) ==
    [label |-> lbl, MATURITY_DATE |-> qd + t, MATURITY |-> t, COUPON |-> c]

Batches(qd) ==
    UNION {
        {[j \in 1..n |-> Security(b + j - 1, qd, ts[j], cs[j])] :
            ts \in [1..n -> (-MaxNeg)..MaxT], cs \in [1..n -> Coupons]}
        : n \in 0..MaxRows, b \in LabelBases}

InitBuilder ==
    /\ quote_date \in QuoteDates
    /\ treasury_direct_df \in Batches(quote_date)
    /\ cf_status = "pending"
    /\ cashflows = <<>>
    /\ maturities = <<>>
    /\ price_in_32s = <<>>
    /\ dp_status = "idle"
    /\ price = 0

CashflowsMatrix ==
    /\ cf_status = "pending"
    /\ LET res == CashflowsMatrixResult(treasury_direct_df, quote_date)
       IN  /\ cf_status' = res.status
           /\ cashflows' = res.cashflows
           /\ maturities' = res.maturities
    /\ UNCHANGED <<treasury_direct_df, quote_date, parser_vars>>

NextBuilder == CashflowsMatrix

SpecBuilder == InitBuilder /\ [][NextBuilder]_vars

\* ----------------------------------------------------- to_decimal_price
\* A token is a sequence of one-character strings.
Digits == <<"0", "1", "2", "3", "4", "5", "6", "7", "8", "9">>

IsDigit(c) == \E d \in 1..10 : Digits[d] = c

DigitVal(c) == (CHOOSE d \in 1..10 : Digits[d] = c) - 1

\* str.split(sep): the parts between the separators, in order
RECURSIVE Split(_, _)
Split(s, sep) ==
    IF \A k \in 1..Len(s) : s[k] # sep THEN <<s>>
    ELSE LET k == CHOOSE x \in 1..Len(s) :
                      s[x] = sep /\ \A y \in 1..(x - 1) : s[y] # sep
         IN  <<SubSeq(s, 1, k - 1)>> \o Split(SubSeq(s, k + 1, Len(s)), sep)

\* int() strips surrounding whitespace
RECURSIVE Strip(_)
Strip(s) ==
    IF s = <<>> THEN s
    ELSE IF Head(s) = " " THEN Strip(Tail(s))
    ELSE IF s[Len(s)] = " " THEN Strip(SubSeq(s, 1, Len(s) - 1))
    ELSE s

\* the value of a run of digits and digit-separating underscores
RECURSIVE DigitsValue(_, _)
DigitsValue(s, acc) ==
    IF s = <<>> THEN acc
    ELSE IF Head(s) = "_" THEN DigitsValue(Tail(s), acc)
    ELSE DigitsValue(Tail(s), 10 * acc + DigitVal(Head(s)))

\* int(text): ok is FALSE where Python raises ValueError
IntParse(text) ==
    LET s == Strip(text)
        signed == s # <<>> /\ Head(s) \in {"-", "+"}
        body == IF signed THEN Tail(s) ELSE s
        wellformed ==
            /\ body # <<>>
            /\ \A k \in 1..Len(body) : IsDigit(body[k]) \/ body[k] = "_"
            /\ IsDigit(body[1]) /\ IsDigit(body[Len(body)])
            /\ \A k \in 1..(Len(body) - 1) : ~(body[k] = "_" /\ body[k + 1] = "_")
    IN  IF ~wellformed THEN [ok |-> FALSE, val |-> 0]
        ELSE [ok |-> TRUE,
              val |-> IF signed /\ Head(s) = "-" THEN -DigitsValue(body, 0)
                      ELSE DigitsValue(body, 0)]

\* s[:2]
FirstTwo(s) == SubSeq(s, 1, IF Len(s) < 2 THEN Len(s) ELSE 2)

\* line 165, in 128ths of a point: 0.25 / 32 is 1
PartialTickKeys == {0, 2, 5, 7}

PartialTickValueLinear(d) == d

PartialTickValue(d) == CASE d = 0 -> 0 [] d = 2 -> 1 [] d = 5 -> 2 [] d = 7 -> 3

\* line 174, in 128ths of a point
DecimalPrice(handles, ticks, partial_ticks) ==
    handles * 128 + ticks * 4 + PartialTickValue(partial_ticks)

\* lines 164-174: the outcome of a call
ToDecimalPriceResult(tok) ==
    LET handles_and_fraction == Split(tok, "'")
        handles == IntParse(handles_and_fraction[1])
    IN  IF ~handles.ok THEN [status |-> "ValueError", price |-> 0]
        ELSE IF Len(handles_and_fraction) < 2
        THEN [status |-> "IndexError", price |-> 0]
        ELSE LET frac == handles_and_fraction[2]
                 ticks == IntParse(FirstTwo(frac))
             IN  IF ~ticks.ok THEN [status |-> "ValueError", price |-> 0]
                 ELSE IF ~(ticks.val < 32)
                 THEN [status |-> "AssertionError", price |-> 0]
                 ELSE LET partial_ticks ==
                              IF Len(frac) > 2 THEN IntParse(<<frac[3]>>)
                              ELSE [ok |-> TRUE, val |-> 0]
                      IN  IF ~partial_ticks.ok
                          THEN [status |-> "ValueError", price |-> 0]
                          ELSE IF partial_ticks.val \notin PartialTickKeys
                          THEN [status |-> "AssertionError", price |-> 0]
                          ELSE [status |-> "returned",
                                price |-> DecimalPrice(handles.val, ticks.val,
                                                       partial_ticks.val)]

\* the tokens tried: a handle text followed by any short tail
HandleTexts == {<<>>, <<"9", "9">>, <<"1", "0", "0">>}

TailChars == {"'", "0", "1", "2", "3", "5", "6", "7", "-", "a"}

Tails == UNION {[1..n -> TailChars] : n \in 0..MaxTail}

Tokens == {h \o t : h \in HandleTexts, t \in Tails}

InitParser ==
    /\ price_in_32s \in Tokens
    /\ dp_status = "pending"
    /\ price = 0
    /\ quote_date = 0
    /\ treasury_direct_df = <<>>
    /\ cf_status = "idle"
    /\ cashflows = <<>>
    /\ maturities = <<>>

ToDecimalPrice ==
    /\ dp_status = "pending"
    /\ LET res == ToDecimalPriceResult(price_in_32s)
       IN  /\ dp_status' = res.status
           /\ price' = res.price
    /\ UNCHANGED <<price_in_32s, builder_vars>>

NextParser == ToDecimalPrice

SpecParser == InitParser /\ [][NextParser]_vars

Init == InitBuilder \/ InitParser

Next == CashflowsMatrix \/ ToDecimalPrice

Spec == Init /\ [][Next]_vars

\* =================================================================== claims
\* ------------------------------------------------- the builder's claims
Called == cf_status \notin {"pending", "idle"}

Returned == cf_status = "returned"

NRows == Len(treasury_direct_df)

NonEmpty == NRows > 0

ValidBatch == \A j \in 1..NRows : treasury_direct_df[j].MATURITY >= 0

\* ceil(m / 0.5) of a time m >= 0, by its defining inequalities
PeriodsOf(m) ==
    CHOOSE p \in 0..(MaxT + 1) : HalfYear * (p - 1) < m /\ m <= HalfYear * p

\* N of the data model: the largest period count of the batch
ColumnsOf(df) == Max({PeriodsOf(df[j].MATURITY) : j \in 1..Len(df)})

\* the matrix row the j-th input security is written to
RowWritten(j) == Norm(treasury_direct_df[j].label - 1, NRows)

RECURSIVE SumUpTo(_, _)
SumUpTo(row, k) == IF k < 0 THEN 0 ELSE row[k] + SumUpTo(row, k - 1)

RowSum(row) == SumUpTo(row, Max(DOMAIN row \cup {-1}))

HasShape(m, rows, cols) ==
    /\ DOMAIN m = 0..(rows - 1)
    /\ \A r \in 0..(rows - 1) : DOMAIN m[r] = 0..(cols - 1)

\* the schedule of one security laid out on cols columns
ScheduleCash(sec, cols) ==
    LET p == PeriodsOf(sec.MATURITY)
    IN  [k \in 0..(cols - 1) |->
            IF p = 0 THEN (IF k = 0 THEN Par ELSE 0)
            ELSE IF k < p - 1 THEN sec.COUPON \div 2
            ELSE IF k = p - 1 THEN sec.COUPON \div 2 + Par
            ELSE 0]

ScheduleTimes(sec, cols) ==
    LET p == PeriodsOf(sec.MATURITY)
    IN  [k \in 0..(cols - 1) |->
            IF p = 0 THEN (IF k = 0 THEN sec.MATURITY ELSE 0)
            ELSE IF k <= p - 1 THEN sec.MATURITY - HalfYear * (p - 1 - k)
            ELSE 0]

\* C1: for every non-empty batch whose times to maturity are all >= 0 the
\* call returns two matrices of shape (len(securities), N), N being the
\* largest per-row period count ceil(max time_to_maturity / 0.5).
C1_ReturnsShape ==
    (Called /\ NonEmpty /\ ValidBatch) =>
        /\ Returned
        /\ HasShape(cashflows, NRows, ColumnsOf(treasury_direct_df))
        /\ HasShape(maturities, NRows, ColumnsOf(treasury_direct_df))

\* C2: row i (0-based) of both matrices holds the schedule of the i-th
\* input security, whatever index labels the rows carry.
C2_RowOrder ==
    (Returned /\ ValidBatch) =>
        \A j \in 1..NRows :
            LET cols == ColumnsOf(treasury_direct_df)
            IN  /\ cashflows[j - 1] = ScheduleCash(treasury_direct_df[j], cols)
                /\ maturities[j - 1] = ScheduleTimes(treasury_direct_df[j], cols)

\* C3: the cashflow row produced for security i sums to
\* 100 + (coupon_rate_i / 2) * periods_i, periods_i its own period count
\* (stated doubled, so that the half coupon needs no division).
C3_RowSum ==
    (Returned /\ ValidBatch) =>
        \A j \in 1..NRows :
            2 * RowSum(cashflows[RowWritten(j)]) =
                2 * Par + treasury_direct_df[j].COUPON
                            * PeriodsOf(treasury_direct_df[j].MATURITY)

C3_Witness ==
    /\ Returned /\ ValidBatch /\ NRows >= 2
    /\ \E j, h \in 1..NRows :
        /\ treasury_direct_df[j].COUPON > 0
        /\ PeriodsOf(treasury_direct_df[j].MATURITY) >= 2
        /\ PeriodsOf(treasury_direct_df[h].MATURITY) = 0
        /\ RowSum(cashflows[RowWritten(h)]) = Par
        /\ RowSum(cashflows[RowWritten(j)]) > Par

\* the last column of a security's schedule: periods - 1, or 0 for periods = 0
FinalColumn(sec) ==
    IF PeriodsOf(sec.MATURITY) = 0 THEN 0 ELSE PeriodsOf(sec.MATURITY) - 1

\* C4 as stated: in both matrices the nonzero entries of a row are exactly
\* the columns 0 .. the security's final period.
C4_NonzeroExactlyPrefix ==
    (Returned /\ ValidBatch) =>
        \A j \in 1..NRows :
            LET last == FinalColumn(treasury_direct_df[j])
                r == RowWritten(j)
            IN  \A k \in DOMAIN cashflows[r] :
                    /\ (cashflows[r][k] # 0) <=> (k <= last)
                    /\ (maturities[r][k] # 0) <=> (k <= last)

\* C4 amended: in both matrices every column beyond the security's final
\* period is zero; up to the final period the maturity entries are nonzero
\* when the time to maturity is positive (the row is all zero when it is 0),
\* the final cashflow entry is nonzero, and the cashflow entries before it
\* are nonzero exactly when the coupon is nonzero.
C4_ZeroBeyondFinalPeriod ==
    (Returned /\ ValidBatch) =>
        \A j \in 1..NRows :
            LET sec == treasury_direct_df[j]
                last == FinalColumn(sec)
                r == RowWritten(j)
            IN  \A k \in DOMAIN cashflows[r] :
                    /\ k > last => (cashflows[r][k] = 0 /\ maturities[r][k] = 0)
                    /\ k = last => cashflows[r][k] # 0
                    /\ k < last => ((cashflows[r][k] # 0) <=> (sec.COUPON # 0))
                    /\ k <= last => ((maturities[r][k] # 0) <=> (sec.MATURITY > 0))

C4_Witness ==
    /\ Returned /\ ValidBatch
    /\ \E j, h \in 1..NRows :
        /\ treasury_direct_df[j].COUPON = 0
        /\ PeriodsOf(treasury_direct_df[j].MATURITY) >= 2
        /\ cashflows[RowWritten(j)][0] = 0
        /\ treasury_direct_df[h].COUPON > 0
        /\ FinalColumn(treasury_direct_df[h]) + 1 < ColumnsOf(treasury_direct_df)
        /\ cashflows[RowWritten(h)][FinalColumn(treasury_direct_df[h])] > Par

\* C5: the nonzero entries of the maturity row produced for security i are
\* strictly increasing with the column, consecutive ones differ by exactly
\* 0.5, and the last nonzero entry is time_to_maturity_i.
C5_MaturityRow ==
    (Returned /\ ValidBatch) =>
        \A j \in 1..NRows :
            LET row == maturities[RowWritten(j)]
            IN  /\ \A k, l \in DOMAIN row :
                       (k < l /\ row[k] # 0 /\ row[l] # 0) => row[k] < row[l]
                /\ \A k, l \in DOMAIN row :
                       (l = k + 1 /\ row[k] # 0 /\ row[l] # 0)
                           => row[l] - row[k] = HalfYear
                /\ \A k \in DOMAIN row :
                       (row[k] # 0 /\ \A l \in DOMAIN row : l > k => row[l] = 0)
                           => row[k] = treasury_direct_df[j].MATURITY

C5_Witness ==
    /\ Returned /\ ValidBatch
    /\ \E j \in 1..NRows :
        LET row == maturities[RowWritten(j)]
        IN  /\ PeriodsOf(treasury_direct_df[j].MATURITY) >= 3
            /\ PeriodsOf(treasury_direct_df[j].MATURITY) = ColumnsOf(treasury_direct_df)
            /\ row[0] # 0 /\ row[1] # 0
            /\ row[2] = treasury_direct_df[j].MATURITY

\* C9: if any security has time_to_maturity < 0 the call fails and returns
\* no matrices.
C9_NegativeMaturityFails ==
    (Called /\ \E j \in 1..NRows : treasury_direct_df[j].MATURITY < 0)
        => ~Returned

\* C10: a security with time_to_maturity = 0 gets 100 in column 0 of its
\* cashflow row and zero elsewhere, and the call completes for every
\* non-empty valid batch, also when every security has time_to_maturity = 0.
C10_ZeroMaturityRow ==
    (Called /\ NonEmpty /\ ValidBatch) =>
        /\ Returned
        /\ \A j \in 1..NRows :
              (treasury_direct_df[j].MATURITY = 0
                    /\ ColumnsOf(treasury_direct_df) > 0) =>
                  \A k \in DOMAIN cashflows[RowWritten(j)] :
                      cashflows[RowWritten(j)][k] = (IF k = 0 THEN Par ELSE 0)

\* -------------------------------------------------- the parser's claims
Parsed == dp_status \notin {"pending", "idle"}

PriceReturned == dp_status = "returned"

SeparatorPositions(tok) == {k \in 1..Len(tok) : tok[k] = "'"}

AllDigits(s) == s # <<>> /\ \A k \in 1..Len(s) : IsDigit(s[k])

\* the number a run of decimal digits denotes
RECURSIVE NumberOf(_)
NumberOf(s) ==
    IF s = <<>> THEN 0
    ELSE 10 * NumberOf(SubSeq(s, 1, Len(s) - 1)) + DigitVal(s[Len(s)])

\* the text before the first separator, and between it and the next one
HandleField(tok) ==
    LET ends == SeparatorPositions(tok) \cup {Len(tok) + 1}
    IN  SubSeq(tok, 1, (CHOOSE k \in ends : \A l \in ends : k <= l) - 1)

AfterHandle(tok) == SubSeq(tok, Len(HandleField(tok)) + 2, Len(tok))

TickField(tok) == FirstTwo(HandleField(AfterHandle(tok)))

\* quarters of a 32nd denoted by the fraction codes
FractionQuarters(c) ==
    CASE c = "0" -> 0 [] c = "2" -> 1 [] c = "5" -> 2 [] c = "7" -> 3

\* handle'ticks[frac]: a non-negative integer, two digits in 00..31 and an
\* optional fraction code
WellFormedToken(tok) ==
    /\ Cardinality(SeparatorPositions(tok)) = 1
    /\ AllDigits(HandleField(tok))
    /\ Len(AfterHandle(tok)) \in {2, 3}
    /\ AllDigits(TickField(tok))
    /\ Len(TickField(tok)) = 2
    /\ NumberOf(TickField(tok)) <= 31
    /\ Len(AfterHandle(tok)) = 3 => AfterHandle(tok)[3] \in {"0", "2", "5", "7"}

\* handle + ticks/32 + f/32, in 128ths of a point
QuotedPrice(tok) ==
    NumberOf(HandleField(tok)) * 128 + NumberOf(TickField(tok)) * 4
        + (IF Len(AfterHandle(tok)) = 3
           THEN FractionQuarters(AfterHandle(tok)[3]) ELSE 0)

\* C6: for every token handle'ticks[frac] the parser returns exactly
\* handle + ticks/32 + f/32; "99'16" gives 99.5, "99'162" gives 99.5078125
\* and "100'31" gives 100.96875 (12736, 12737 and 12924 128ths).
C6_DecimalPrice ==
    /\ (Parsed /\ WellFormedToken(price_in_32s)) =>
            (PriceReturned /\ price = QuotedPrice(price_in_32s))
    /\ (Parsed /\ price_in_32s = <<"9", "9", "'", "1", "6">>) => price = 12736
    /\ (Parsed /\ price_in_32s = <<"9", "9", "'", "1", "6", "2">>) => price = 12737
    /\ (Parsed /\ price_in_32s = <<"1", "0", "0", "'", "3", "1">>) => price = 12924

C6_Witness ==
    /\ PriceReturned
    /\ WellFormedToken(price_in_32s)
    /\ price_in_32s = <<"1", "0", "0", "'", "3", "1", "7">>
    /\ price = 12927

\* the tick field denotes a value in [0, 31]
TickInRange(tok) ==
    LET f == TickField(tok)
    IN  \/ AllDigits(f) /\ NumberOf(f) <= 31
        \/ Len(f) = 2 /\ f[1] = "-" /\ f[2] = "0"

\* C7: no price is returned for a token whose tick field denotes a value
\* outside [0, 31] (32 or more, negative, or not a number).
C7_TickOutsideRangeFails ==
    PriceReturned => TickInRange(price_in_32s)

\* C8: no price is returned for a token that does not split on the
\* separator into exactly two parts, nor for one whose first part is not a
\* non-negative integer.
C8_MalformedTokenFails ==
    PriceReturned =>
        /\ Cardinality(SeparatorPositions(price_in_32s)) = 1
        /\ AllDigits(HandleField(price_in_32s))

====
